---- MODULE Spec2Model ----
(***************************************************************************)
(* The masterclass registration server (src/server.js): the POST /register *)
(* handler, the reminder scheduler (scheduleEmail), the mail transport and *)
(* the ledger call it starts, the registration file, and the process's     *)
(* life (uncaught exception, restart); the dispatch of the request handler *)
(* with the static files and the tracking block; and the calendar of the   *)
(* page (src/public/script.js, getTimesForDate).                           *)
(*                                                                         *)
(* Time is counted in units of 30 minutes, the largest unit that divides   *)
(* the five reminder offsets (-24h, -5h, -1h, -30min, +1h); every instant  *)
(* of the model is a whole number of units after 2025-08-22T19:00:00Z.     *)
(***************************************************************************)
EXTENDS Integers, Sequences, FiniteSets, TLC

VARIABLES
    now,            \* Date.now(), in units since the origin
    up,             \* the node process is running
    epoch,          \* how many times the process has been (re)started
    airtableBase,   \* server.js:71-75, TRUE when the Airtable keys are set
    regFile,        \* the content of registrations.json
    reqs,           \* the POST /register requests, in order of connection
    timers,         \* the pending setTimeout timers of the running process
    events,         \* history: what the handlers and timers did, in order
    mailInFlight,   \* transporter.sendMail calls not yet answered
    emailsLog,      \* emails.log: how many entries of each kind
    ledgerInFlight, \* Airtable create calls not yet answered
    views,          \* the content of views.json: token -> record
    web,            \* history: the requests the dispatch itself dealt with
    rendered        \* script.js: the dates the page has shown the times of

vars == <<now, up, epoch, airtableBase, regFile, reqs, timers, events,
          mailInFlight, emailsLog, ledgerInFlight, views, web, rendered>>

---------------------------------------------------------------------------
(* Bounds of the model *)

MaxReqs == 2          \* requests connected in one behaviour
MaxRestarts == 1      \* restarts of the process by its operator
MaxMailAnswers == 1   \* answers of the mail transport (the others hang)
MaxWeb == 2           \* requests the dispatch itself deals with

---------------------------------------------------------------------------
(* Program constants *)

\* -0.5 * 60 * 60 * 1000 ms, the smallest offset (server.js:375): one unit
UnitMs == 1800000

\* The largest delay of a Node timer, 2^31 - 1 ms
TIMEOUT_MAX == 2147483647

\* The offsets of server.js:372-376, in units
offsetOf(job) ==
    CASE job = "dayBefore" -> -24 * 2
      [] job = "fiveHours" -> -5 * 2
      [] job = "oneHour"   -> -1 * 2
      [] job = "halfHour"  -> -1
      [] job = "after"     -> 1 * 2

\* The five scheduleEmail calls, in the order of server.js:372-376
Reminders == <<"dayBefore", "fiveHours", "oneHour", "halfHour", "after">>

ReminderSet == {Reminders[i] : i \in 1..Len(Reminders)}

\* server.js:395
AdminList == "bruno.chazreaud@gmail.com, laurmerel@gmail.com"

---------------------------------------------------------------------------
(* Inputs: form bodies and session strings *)

\* What data.<field> is when the body has no such key
undefined == "undefined"

\* new Date(s).getTime() for the session strings of the model; a string that
\* is no date gives an Invalid Date (its time is NaN)
DateParse(s) ==
    CASE s = "2025-08-23T20:00:00.000Z"  -> [valid |-> TRUE, time |-> 50]
      [] s = "2025-08-23T22:00:00+02:00" -> [valid |-> TRUE, time |-> 50]
      [] s = "2025-09-16T19:00:00.000Z"  -> [valid |-> TRUE, time |-> 1200]
      [] OTHER                           -> [valid |-> FALSE, time |-> 0]

\* Date.prototype.toISOString of a valid date (it throws on an invalid one)
toISOString(t) ==
    CASE t = 50   -> "2025-08-23T20:00:00.000Z"
      [] t = 1200 -> "2025-09-16T19:00:00.000Z"

SessionInputs ==
    { "2025-08-23T20:00:00.000Z", "2025-08-23T22:00:00+02:00",
      "2025-09-16T19:00:00.000Z", "samedi 22h" }

RequiredFields == {"firstName", "email", "session", "consent"}

BaseForm(s) ==
    [firstName |-> "Ana", lastName |-> "Diaz", email |-> "ana@example.org",
     session |-> s, consent |-> "on"]

\* A complete form for each session string, and the complete form with one
\* field absent or empty
Forms ==
    {BaseForm(s) : s \in SessionInputs}
    \cup {[BaseForm("2025-08-23T20:00:00.000Z") EXCEPT ![f] = v] :
             f \in RequiredFields \cup {"lastName"}, v \in {undefined, ""}}

\* The instants the clock is observed at: the start; the send times of the
\* first, the fourth and the last reminder of the session at 50; the send
\* times of the first and the last reminder of the session at 1200
Instants == {0, 2, 49, 52, 1152, 1202}

---------------------------------------------------------------------------
(* Helpers of the handler *)

\* JavaScript's !v for the values a form field takes
Falsy(v) == v \in {undefined, ""}

\* v || ''
OrEmpty(v) == IF Falsy(v) THEN "" ELSE v

\* The test of server.js:275 without its last operand
MissingRequired_NoConsent(data) ==
    \/ Falsy(OrEmpty(data.firstName))
    \/ Falsy(OrEmpty(data.email))
    \/ Falsy(OrEmpty(data.session))

\* server.js:275
MissingRequired(data) ==
    \/ Falsy(OrEmpty(data.firstName))
    \/ Falsy(OrEmpty(data.email))
    \/ Falsy(OrEmpty(data.session))
    \/ Falsy(data.consent)

Ev(type, req, job, to, sendTime, via) ==
    [type |-> type, req |-> req, job |-> job, to |-> to, at |-> now,
     sendTime |-> sendTime, via |-> via, epoch |-> epoch]

\* A handler that starts from an empty list without reading the file
ReadRegistrations_NotRead(file) == <<>>

\* try { JSON.parse(readFileSync(REG_FILE)) } catch { [] }, server.js:283-287.
\* The file holds a JSON list ("list"), some other JSON value ("other"), text
\* that is no JSON ("unreadable"), or does not exist ("absent")
ReadRegistrations(file) ==
    IF file.kind = "list" THEN file.items ELSE <<>>

\* The test of server.js:205 with < for <=
FiresNow_Strict(delay) == delay < 0

\* scheduleEmail's test, server.js:203-205
FiresNow(delay) == delay <= 0

\* What setTimeout makes of a delay: outside 1 .. TIMEOUT_MAX ms it is set
\* to 1 ms, which is 0 units
TimerDelay(delay) ==
    IF delay > TIMEOUT_MAX \div UnitMs \/ delay < 1
    THEN 1 \div UnitMs
    ELSE delay

\* A scheduleEmail that sets a timer for a send time to come and does
\* nothing for one that has passed
scheduleEmail_DropsPast(eventDate, job, req, to, at) ==
    LET sendTime == eventDate + offsetOf(job)
        delay    == sendTime - now
    IN  [ events |->
            <<Ev("scheduleEmail", req, job, to, sendTime, "-")>>
            \o (IF delay <= 0 THEN <<>>
                ELSE <<Ev("setTimeout", req, job, to, sendTime, "-")>>),
          timers |->
            IF delay <= 0
            THEN {}
            ELSE {[req |-> req, job |-> job, to |-> to, sendTime |-> sendTime,
                   due |-> now + TimerDelay(delay), seq |-> at + 1]},
          sends |-> 0 ]

\* scheduleEmail(eventDate, offsetMs, to, ...), server.js:201-211: the
\* events of the call made as event number `at` of the history
scheduleEmail(eventDate, job, req, to, at) ==
    LET sendTime == eventDate + offsetOf(job)
        delay    == sendTime - now
    IN  [ events |->
            << Ev("scheduleEmail", req, job, to, sendTime, "-"),
               IF FiresNow(delay)
               THEN Ev("send", req, job, to, sendTime, "sync")
               ELSE Ev("setTimeout", req, job, to, sendTime, "-") >>,
          timers |->
            IF FiresNow(delay)
            THEN {}
            ELSE {[req |-> req, job |-> job, to |-> to, sendTime |-> sendTime,
                   due |-> now + TimerDelay(delay), seq |-> at + 1]},
          sends |-> IF FiresNow(delay) THEN 1 ELSE 0 ]

RECURSIVE ScheduleAll(_, _, _, _, _)
\* The calls of server.js:372-376 from the i-th on
ScheduleAll(i, eventDate, req, to, at) ==
    IF i > Len(Reminders)
    THEN [events |-> <<>>, timers |-> {}, sends |-> 0]
    ELSE LET one  == scheduleEmail(eventDate, Reminders[i], req, to, at)
             rest == ScheduleAll(i + 1, eventDate, req, to, at + 2)
         IN  [events |-> one.events \o rest.events,
              timers |-> one.timers \cup rest.timers,
              sends  |-> one.sends + rest.sends]

\* What the process loses when it ends: its timers, its pending callbacks
\* and the connections it holds
DropConnections(rs) ==
    [i \in 1..Len(rs) |->
        IF rs[i].state = "receiving" THEN [rs[i] EXCEPT !.state = "lost"]
        ELSE rs[i]]

\* { watched: 0, completed: false, lastPing: null }, server.js:408
NoView == [watched |-> 0, completed |-> FALSE, lastPing |-> -1]

---------------------------------------------------------------------------
(* Initial state: the process has started, registrations.json holds [] and *)
(* there is no views.json                                                  *)

Init ==
    /\ now = 0
    /\ up = TRUE
    /\ epoch = 0
    /\ airtableBase \in BOOLEAN
    /\ regFile = [kind |-> "list", items |-> <<>>]
    /\ reqs = <<>>
    /\ timers = {}
    /\ events = <<>>
    /\ mailInFlight = 0
    /\ emailsLog = [sent |-> 0, errors |-> 0]
    /\ ledgerInFlight = 0
    /\ views = [t \in {} |-> NoView]
    /\ web = <<>>
    /\ rendered = <<>>

---------------------------------------------------------------------------
(* Actions *)

\* A client connects and starts to send a POST /register body
Connect(body) ==
    /\ UNCHANGED <<views, web, rendered>>
    /\ up
    /\ Len(reqs) < MaxReqs
    /\ reqs' = Append(reqs, [body |-> body, state |-> "receiving",
                             ended |-> FALSE, status |-> 0,
                             location |-> [name |-> "", date |-> ""]])
    /\ UNCHANGED <<now, up, epoch, airtableBase, regFile, timers, events,
                   mailInFlight, emailsLog, ledgerInFlight>>

\* req.on('end'), server.js:268-279: a required field is missing
RegisterReject(r) ==
    /\ UNCHANGED <<views, web, rendered>>
    /\ up
    /\ reqs[r].state = "receiving"
    /\ MissingRequired(reqs[r].body)
    /\ reqs' = [reqs EXCEPT ![r].state = "answered", ![r].ended = TRUE,
                            ![r].status = 400]
    /\ UNCHANGED <<now, up, epoch, airtableBase, regFile, timers, events,
                   mailInFlight, emailsLog, ledgerInFlight>>

\* req.on('end'), server.js:268-288: the session is no date and toISOString
\* throws a RangeError, or the file holds JSON that is no list and push is
\* no function; nothing catches the exception and the process ends
RegisterThrow(r) ==
    /\ UNCHANGED <<views, web, rendered>>
    /\ up
    /\ reqs[r].state = "receiving"
    /\ ~MissingRequired(reqs[r].body)
    /\ ~DateParse(reqs[r].body.session).valid \/ regFile.kind = "other"
    /\ up' = FALSE
    /\ timers' = {}
    /\ mailInFlight' = 0
    /\ ledgerInFlight' = 0
    /\ reqs' = DropConnections([reqs EXCEPT ![r].state = "lost",
                                            ![r].ended = TRUE])
    /\ UNCHANGED <<now, epoch, airtableBase, regFile, events, emailsLog>>

\* A push that leaves out an entry whose email and session are in the list
push_Unique(registrations, entry) ==
    IF \E i \in 1..Len(registrations) :
          /\ registrations[i].email = entry.email
          /\ registrations[i].session = entry.session
    THEN registrations
    ELSE Append(registrations, entry)

\* registrations.push({...}), server.js:288
push(registrations, entry) == Append(registrations, entry)

\* A handler that calls the ledger before it writes the store
HandlerSteps_LedgerFirst(persist, ledger, dispatch, redirect) ==
    ledger \o persist \o dispatch \o redirect

\* The statements of the 'end' callback in the order they are written:
\* server.js:282-289, 294-296, 370-395, 397-399
HandlerSteps(persist, ledger, dispatch, redirect) ==
    persist \o ledger \o dispatch \o redirect

\* req.on('end'), server.js:268-400: the registration is stored, the ledger
\* is called, the mails are sent or scheduled, the redirect is answered
RegisterAccept(r) ==
    /\ UNCHANGED <<views, web, rendered>>
    /\ up
    /\ reqs[r].state = "receiving"
    /\ ~MissingRequired(reqs[r].body)
    /\ DateParse(reqs[r].body.session).valid
    /\ regFile.kind # "other"
    /\ LET data      == reqs[r].body
           firstName == OrEmpty(data.firstName)
           lastName  == OrEmpty(data.lastName)
           email     == OrEmpty(data.email)
           eventDate == DateParse(data.session).time
           iso       == toISOString(eventDate)
           entry     == [firstName |-> firstName, lastName |-> lastName,
                         email |-> email, session |-> iso]
           n         == Len(events)
           persist   == << Ev("writeFile", r, "-", "-", 0, "-") >>
           ledger    == << Ev("appendToAirtable", r, "-", "-", 0, "-") >>
                        \o (IF airtableBase
                            THEN <<Ev("airtable.create", r, "-", "-", 0, "-")>>
                            ELSE <<>>)
           first     == <<Ev("send", r, "confirmation", email, now, "sync")>>
           sched     == ScheduleAll(1, eventDate, r, email,
                                    n + Len(persist) + Len(ledger) + 2)
           dispatch  == first \o sched.events
                        \o <<Ev("send", r, "admin", AdminList, now, "sync")>>
           redirect  == << Ev("respond", r, "-", "-", 0, "-") >>
       IN  /\ regFile' = [kind |-> "list",
                          items |-> push(ReadRegistrations(regFile), entry)]
           /\ events' = events
                        \o HandlerSteps(persist, ledger, dispatch, redirect)
           /\ timers' = timers \cup sched.timers
           /\ mailInFlight' = mailInFlight + 2 + sched.sends
           /\ ledgerInFlight' = ledgerInFlight + (IF airtableBase THEN 1 ELSE 0)
           /\ reqs' = [reqs EXCEPT ![r].state = "answered", ![r].ended = TRUE,
                                   ![r].status = 302,
                                   ![r].location = [name |-> firstName,
                                                    date |-> iso]]
    /\ UNCHANGED <<now, up, epoch, airtableBase, emailsLog>>

\* The timer that expires first, the older one of two that expire together
NextTimer ==
    CHOOSE t \in timers :
        \A u \in timers :
            \/ t.due < u.due
            \/ t.due = u.due /\ t.seq <= u.seq

\* A timer that is set again when it has run, as setInterval does
TimersAfter_Repeating(ts, t) == ts

\* What is left of the timers when t has run: a setTimeout timer runs once
TimersAfter(ts, t) == ts \ {t}

\* A timer set by server.js:209 expires and runs sendEmail
TimerFire ==
    /\ UNCHANGED <<views, web, rendered>>
    /\ up
    /\ timers # {}
    /\ NextTimer.due <= now
    /\ events' = Append(events, Ev("send", NextTimer.req, NextTimer.job,
                                   NextTimer.to, NextTimer.sendTime, "timer"))
    /\ timers' = TimersAfter(timers, NextTimer)
    /\ mailInFlight' = mailInFlight + 1
    /\ UNCHANGED <<now, up, epoch, airtableBase, regFile, reqs, emailsLog,
                   ledgerInFlight>>

\* A callback that answers the registrant with the error of the transport
ResponsesAfterMail_Surfaced(rs, error) ==
    [i \in 1..Len(rs) |->
        IF error /\ rs[i].status = 302
        THEN [rs[i] EXCEPT !.status = 500]
        ELSE rs[i]]

\* The responses after the callback of sendMail, server.js:188-197: it writes
\* to emails.log and to the console, and has no hold of any res
ResponsesAfterMail(rs, error) == rs

\* The callback of transporter.sendMail, server.js:188-197, with an error or
\* without: one entry is appended to emails.log
MailCallback(error) ==
    /\ UNCHANGED <<views, web, rendered>>
    /\ up
    /\ mailInFlight > 0
    /\ emailsLog.sent + emailsLog.errors < MaxMailAnswers
    /\ mailInFlight' = mailInFlight - 1
    /\ emailsLog' = IF error
                    THEN [emailsLog EXCEPT !.errors = @ + 1]
                    ELSE [emailsLog EXCEPT !.sent = @ + 1]
    /\ reqs' = ResponsesAfterMail(reqs, error)
    /\ UNCHANGED <<now, up, epoch, airtableBase, regFile, timers, events,
                   ledgerInFlight>>

\* The callback of Airtable's create, server.js:137-144: with an error or
\* without, it writes to the console and resolves
LedgerCallback ==
    /\ UNCHANGED <<views, web, rendered>>
    /\ up
    /\ ledgerInFlight > 0
    /\ ledgerInFlight' = ledgerInFlight - 1
    /\ UNCHANGED <<now, up, epoch, airtableBase, regFile, reqs, timers,
                   events, mailInFlight, emailsLog>>

\* Time passes, to the next instant; a running process runs the timers that
\* have expired before the clock is looked at again
Tick ==
    /\ UNCHANGED <<views, web, rendered>>
    /\ \E t \in Instants : t > now
    /\ ~(up /\ \E t \in timers : t.due <= now)
    /\ now' = CHOOSE t \in Instants :
                 t > now /\ \A u \in Instants : u > now => t <= u
    /\ UNCHANGED <<up, epoch, airtableBase, regFile, reqs, timers, events,
                   mailInFlight, emailsLog, ledgerInFlight>>

\* A startup that takes over the timers of the process before it
TimersAtStart_Kept(ts) == ts

\* The timers a starting process holds: server.js sets none at startup
TimersAtStart(ts) == {}

\* A startup that writes [] without the test of server.js:152
FileAtStart_Reset(file) == [kind |-> "list", items |-> <<>>]

\* registrations.json after startup, server.js:152-154
FileAtStart(file) ==
    IF file.kind = "absent" THEN [kind |-> "list", items |-> <<>>] ELSE file

\* The operator stops the process if it runs, and starts it
Restart ==
    /\ UNCHANGED <<views, web, rendered>>
    /\ epoch < MaxRestarts
    /\ epoch' = epoch + 1
    /\ up' = TRUE
    /\ timers' = TimersAtStart(timers)
    /\ mailInFlight' = 0
    /\ ledgerInFlight' = 0
    /\ reqs' = DropConnections(reqs)
    /\ regFile' = FileAtStart(regFile)
    /\ UNCHANGED <<now, airtableBase, events, emailsLog>>

Next ==
    \/ \E body \in Forms : Connect(body)
    \/ \E r \in 1..Len(reqs) : RegisterReject(r)
    \/ \E r \in 1..Len(reqs) : RegisterThrow(r)
    \/ \E r \in 1..Len(reqs) : RegisterAccept(r)
    \/ TimerFire
    \/ \E error \in BOOLEAN : MailCallback(error)
    \/ LedgerCallback
    \/ Tick
    \/ Restart

Spec == Init /\ [][Next]_vars

\* The forms of the liveness check: one for each session string, and one
\* that is rejected
LiveForms ==
    {BaseForm(s) : s \in SessionInputs}
    \cup {[BaseForm("2025-08-23T20:00:00.000Z") EXCEPT !["consent"] = undefined]}

NextLive ==
    \/ \E body \in LiveForms : Connect(body)
    \/ \E r \in 1..Len(reqs) : RegisterReject(r)
    \/ \E r \in 1..Len(reqs) : RegisterThrow(r)
    \/ \E r \in 1..Len(reqs) : RegisterAccept(r)
    \/ TimerFire
    \/ Tick
    \/ Restart

\* The event loop runs a timer that has expired, and time passes. The answers
\* of the mail transport and of the ledger are left to hang here: they change
\* mailInFlight, emailsLog and ledgerInFlight only, which no guard reads but
\* their own
FairSpec ==
    Init /\ [][NextLive]_vars /\ WF_vars(TimerFire) /\ WF_vars(Tick)

\* What registrations.json can hold when it is no JSON list: some other
\* JSON value, text that is no JSON, or nothing (the file is gone)
DamagedKinds == {"other", "unreadable", "absent"}

\* registrations.json is changed from outside the process, by an edit, a
\* failed copy or a removal, and no longer holds a JSON list
Damage(kind) ==
    /\ UNCHANGED <<views, web, rendered>>
    /\ regFile.kind = "list"
    /\ regFile' = [kind |-> kind, items |-> <<>>]
    /\ UNCHANGED <<now, up, epoch, airtableBase, reqs, timers, events,
                   mailInFlight, emailsLog, ledgerInFlight>>

NextDamaged ==
    \/ \E body \in LiveForms : Connect(body)
    \/ \E r \in 1..Len(reqs) : RegisterReject(r)
    \/ \E r \in 1..Len(reqs) : RegisterThrow(r)
    \/ \E r \in 1..Len(reqs) : RegisterAccept(r)
    \/ TimerFire
    \/ Tick
    \/ Restart
    \/ \E kind \in DamagedKinds : Damage(kind)

\* The server with a registrations.json that can be damaged
SpecDamaged == Init /\ [][NextDamaged]_vars

---------------------------------------------------------------------------
(* The dispatch of the request handler, server.js:258-450, and the static  *)
(* files. A request target and a path are sequences of atoms: a name, the  *)
(* separator "/", the parent segment "..", and the percent-escapes "%2F"   *)
(* (of "/"), "%2e%2e" (of "..") and "%" (an escape that is cut short).     *)

RECURSIVE SplitOn(_, _)
\* String.prototype.split: the pieces of s between the atoms sep
SplitOn(s, sep) ==
    IF s = <<>>
    THEN << <<>> >>
    ELSE LET rest == SplitOn(Tail(s), sep)
         IN  IF Head(s) = sep
             THEN << <<>> >> \o rest
             ELSE << <<Head(s)>> \o Head(rest) >> \o Tail(rest)

RECURSIVE JoinPath(_)
\* The segments written one after the other, each after a "/"
JoinPath(segs) ==
    IF segs = <<>> THEN <<>>
    ELSE <<"/">> \o Head(segs) \o JoinPath(Tail(segs))

\* A parent segment for the URL parser: ".." written out or escaped
UrlDotDot(seg) == seg \in { <<"..">>, <<"%2e%2e">> }

RECURSIVE UrlShorten(_, _)
\* The path state of the URL parser: a parent segment removes the segment
\* before it, and leaves an empty segment when it is the last
UrlShorten(segs, acc) ==
    IF segs = <<>> THEN acc
    ELSE IF UrlDotDot(Head(segs))
         THEN UrlShorten(Tail(segs),
                         (IF acc = <<>> THEN acc
                          ELSE SubSeq(acc, 1, Len(acc) - 1))
                         \o (IF Tail(segs) = <<>> THEN << <<>> >> ELSE <<>>))
         ELSE UrlShorten(Tail(segs), Append(acc, Head(segs)))

\* new URL(req.url, base).pathname, server.js:259, of a target that starts
\* with "/": the escapes stay as they are written
UrlPathname(target) == JoinPath(UrlShorten(Tail(SplitOn(target, "/")), <<>>))

\* decodeURIComponent throws a URIError on an escape that is cut short
DecodeThrows(s) == \E i \in 1..Len(s) : s[i] = "%"

\* decodeURIComponent, server.js:260
decodeURIComponent(s) ==
    [i \in 1..Len(s) |->
        CASE s[i] = "%2F"    -> "/"
          [] s[i] = "%2e%2e" -> ".."
          [] OTHER           -> s[i]]

RECURSIVE Normalize(_, _)
\* path.normalize of an absolute path: an empty segment is dropped and a
\* ".." removes the segment before it, if there is one
Normalize(segs, acc) ==
    IF segs = <<>> THEN acc
    ELSE IF Head(segs) = <<>>
         THEN Normalize(Tail(segs), acc)
         ELSE IF Head(segs) = <<"..">>
              THEN Normalize(Tail(segs),
                             IF acc = <<>> THEN acc
                             ELSE SubSeq(acc, 1, Len(acc) - 1))
              ELSE Normalize(Tail(segs), Append(acc, Head(segs)))

\* The directory of server.js
dirname == << <<"app">> >>

\* The asset root, server.js:244
PublicRoot == dirname \o << <<"public">> >>

\* path.join(__dirname, 'public', filePath), server.js:244
FullPath(filePath) == Normalize(PublicRoot \o SplitOn(filePath, "/"), <<>>)

\* The files on the disk: the assets under public/, and beside public/ the
\* source of the server and the registrations (server.js:149-154)
Disk ==
    { PublicRoot \o << <<"index.html">> >>,
      PublicRoot \o << <<"confirm.html">> >>,
      PublicRoot \o << <<"script.js">> >>,
      dirname \o << <<"server.js">> >>,
      dirname \o << <<"registrations.json">> >> }

\* server.js:436-443
FilePathOf(pathname) ==
    IF pathname = <<"/">> \/ pathname = <<>> THEN <<"index.html">>
    ELSE IF Head(pathname) = "/" THEN Tail(pathname)
    ELSE pathname

\* The branch of the handler that deals with the request. The tests of
\* lines 404 and 428 stand after the return of line 401, inside the block
\* of the test of line 263: no request comes to them
Route(method, pathname) ==
    IF method = "POST" /\ pathname = <<"/", "register">> THEN "register"
    ELSE IF method = "GET" THEN "static"
    ELSE "fallback"

Methods == {"GET", "POST", "DELETE"}

\* The request targets of the model
Targets ==
    { <<"/">>,
      <<"/", "index.html">>,
      <<"/", "script.js">>,
      <<"/", "missing.html">>,
      <<"/", "register">>,
      <<"/", "track">>,
      <<"/", "track-complete">>,
      <<"/", "admin", "/", "views">>,
      <<"/", "public", "/", "..", "/", "index.html">>,
      <<"/", "..", "/", "server.js">>,
      <<"/", "%2e%2e", "/", "server.js">>,
      <<"/", "..", "%2F", "server.js">>,
      <<"/", "%2e%2e", "%2F", "registrations.json">>,
      <<"/", "%">> }

Tokens == {"", "t1"}

WatchedValues == {0, 90, 120}

\* The JSON bodies of the tracking posts
TrackBodies == [token : Tokens, watchedSeconds : WatchedValues]

NoBody == [token |-> "", watchedSeconds |-> 0]

\* The requests of the model: every method on every target, and the
\* tracking posts with their bodies
HttpRequests ==
    [method : Methods, target : Targets, body : {NoBody}]
    \cup [method : {"POST"},
          target : { <<"/", "track">>, <<"/", "track-complete">> },
          body : TrackBodies]

\* The forms posted to /register in the check of the dispatch
RouteForms ==
    { BaseForm("2025-08-23T20:00:00.000Z"),
      [BaseForm("2025-08-23T20:00:00.000Z") EXCEPT !["consent"] = undefined] }

\* const pathname = decodeURIComponent(url.pathname), server.js:259-260
PathnameOf(q) == decodeURIComponent(UrlPathname(q.target))

Handled(q, branch, status, text, file) ==
    [method |-> q.method, target |-> q.target, body |-> q.body,
     pathname |-> PathnameOf(q), branch |-> branch, status |-> status,
     text |-> text, file |-> file]

\* server.js:260: decodeURIComponent throws inside the async handler. The
\* request gets no response; the rejection of the handler's promise is not
\* handled, which ends the process or not, as the version of Node has it
HttpThrow(q, dies) ==
    /\ up
    /\ Len(web) < MaxWeb
    /\ DecodeThrows(UrlPathname(q.target))
    /\ web' = Append(web, [method |-> q.method, target |-> q.target,
                           body |-> q.body, pathname |-> <<>>,
                           branch |-> "throw", status |-> 0,
                           text |-> "", file |-> <<>>])
    /\ up' = ~dies
    /\ timers' = IF dies THEN {} ELSE timers
    /\ mailInFlight' = IF dies THEN 0 ELSE mailInFlight
    /\ ledgerInFlight' = IF dies THEN 0 ELSE ledgerInFlight
    /\ reqs' = IF dies THEN DropConnections(reqs) ELSE reqs
    /\ UNCHANGED <<now, epoch, airtableBase, regFile, events, emailsLog,
                   views, rendered>>

\* server.js:263-401: a POST to /register; the handler waits for the body
HttpRegister(q, form) ==
    /\ ~DecodeThrows(UrlPathname(q.target))
    /\ Route(q.method, PathnameOf(q)) = "register"
    /\ Connect(form)

\* server.js:433-446 and serveStatic, 243-255: a GET is answered with the
\* file at the joined path, or with 404 when readFile fails
HttpStatic(q) ==
    /\ up
    /\ Len(web) < MaxWeb
    /\ ~DecodeThrows(UrlPathname(q.target))
    /\ Route(q.method, PathnameOf(q)) = "static"
    /\ LET fullPath == FullPath(FilePathOf(PathnameOf(q)))
       IN  web' = Append(web,
                     IF fullPath \in Disk
                     THEN Handled(q, "static", 200, "", fullPath)
                     ELSE Handled(q, "static", 404, "Fichier non trouvé",
                                  <<>>))
    /\ UNCHANGED <<now, up, epoch, airtableBase, regFile, reqs, timers,
                   events, mailInFlight, emailsLog, ledgerInFlight, views,
                   rendered>>

\* server.js:448-449
HttpFallback(q) ==
    /\ up
    /\ Len(web) < MaxWeb
    /\ ~DecodeThrows(UrlPathname(q.target))
    /\ Route(q.method, PathnameOf(q)) = "fallback"
    /\ web' = Append(web, Handled(q, "fallback", 404, "Page non trouvée",
                                  <<>>))
    /\ UNCHANGED <<now, up, epoch, airtableBase, regFile, reqs, timers,
                   events, mailInFlight, emailsLog, ledgerInFlight, views,
                   rendered>>

NextRoutes ==
    \/ \E q \in HttpRequests, dies \in BOOLEAN : HttpThrow(q, dies)
    \/ \E q \in HttpRequests, form \in RouteForms : HttpRegister(q, form)
    \/ \E q \in HttpRequests : HttpStatic(q)
    \/ \E q \in HttpRequests : HttpFallback(q)
    \/ \E r \in 1..Len(reqs) : RegisterReject(r)
    \/ \E r \in 1..Len(reqs) : RegisterAccept(r)

\* The server seen from its requests of every method and target
SpecRoutes == Init /\ [][NextRoutes]_vars

---------------------------------------------------------------------------
(* The block of server.js:403-427, which no request comes to, as it would  *)
(* run on a tracking post: it is checked by itself, to tell what the block *)
(* computes from where the block stands.                                   *)

\* db[token] || { watched: 0, completed: false, lastPing: null }
ViewOf(db, token) == IF token \in DOMAIN db THEN db[token] ELSE NoView

\* db[token] = cur
WithView(db, token, cur) ==
    [t \in DOMAIN db \cup {token} |-> IF t = token THEN cur ELSE db[t]]

\* server.js:409-416, for the watchedSeconds of the model, which `| 0`
\* leaves as they are
track(db, body) ==
    IF body.token = "" THEN db
    ELSE LET cur == ViewOf(db, body.token)
             watched == IF cur.watched >= body.watchedSeconds
                        THEN cur.watched ELSE body.watchedSeconds
         IN  WithView(db, body.token,
                      [cur EXCEPT !.watched = watched, !.lastPing = now])

\* server.js:418-425
trackComplete(db, body) ==
    IF body.token = "" THEN db
    ELSE WithView(db, body.token,
                  [ViewOf(db, body.token) EXCEPT !.completed = TRUE,
                                                 !.lastPing = now])

TrackingBlock(q) ==
    /\ up
    /\ Len(web) < MaxWeb
    /\ q.method = "POST"
    /\ PathnameOf(q) \in { <<"/", "track">>, <<"/", "track-complete">> }
    /\ views' = IF PathnameOf(q) = <<"/", "track">>
                THEN track(views, q.body)
                ELSE trackComplete(views, q.body)
    /\ web' = Append(web, Handled(q, "tracking", 204, "", <<>>))
    /\ UNCHANGED <<now, up, epoch, airtableBase, regFile, reqs, timers,
                   events, mailInFlight, emailsLog, ledgerInFlight, rendered>>

SpecTrackingBlock ==
    Init /\ [][\E q \in HttpRequests : TrackingBlock(q)]_vars

---------------------------------------------------------------------------
(* The calendar of the page, src/public/script.js. A date is a record of   *)
(* what getFullYear, getMonth (0 for January) and getDate give.            *)

Years == 2024..2026

IsLeap(y) == y % 4 = 0 /\ (y % 100 # 0 \/ y % 400 = 0)

DaysIn(y, m) ==
    CASE m \in {3, 5, 8, 10} -> 30
      [] m = 1               -> IF IsLeap(y) THEN 29 ELSE 28
      [] OTHER               -> 31

\* The dates of the model: every day of the years of Years
Dates ==
    {d \in [year : Years, month : 0..11, date : 1..31] :
        d.date <= DaysIn(d.year, d.month)}

RECURSIVE DaysBeforeYear(_)
\* The days from 1 January 2024 to 1 January of year y
DaysBeforeYear(y) ==
    IF y = 2024 THEN 0
    ELSE DaysBeforeYear(y - 1) + (IF IsLeap(y - 1) THEN 366 ELSE 365)

RECURSIVE DaysBeforeMonth(_, _)
\* The days from 1 January of year y to the first of month m
DaysBeforeMonth(y, m) ==
    IF m = 0 THEN 0 ELSE DaysBeforeMonth(y, m - 1) + DaysIn(y, m - 1)

\* Date.prototype.getDay: 0 for Sunday .. 6 for Saturday; 1 January 2024
\* was a Monday
getDay(d) ==
    (1 + DaysBeforeYear(d.year) + DaysBeforeMonth(d.year, d.month)
       + (d.date - 1)) % 7

\* The test of script.js:27-32 without the day of the month
IsException_AnyDay(d) ==
    d.year = 2025 /\ d.month = 7 /\ getDay(d) = 6

\* script.js:27-32
IsException(d) ==
    d.year = 2025 /\ d.month = 7 /\ d.date = 23 /\ getDay(d) = 6

\* script.js:24-50
getTimesForDate(d) ==
    LET dow == getDay(d)
    IN  IF IsException(d)
        THEN <<"09:30", "14:00", "16:00", "18:30", "20:30", "22:00">>
        ELSE IF dow >= 1 /\ dow <= 4
             THEN <<"15:00", "18:30", "20:30">>
             ELSE IF dow = 5
                  THEN <<"09:30", "15:00", "19:30">>
                  ELSE IF dow = 6
                       THEN <<"09:30", "14:00", "16:00", "18:30", "20:30">>
                       ELSE <<"09:30", "10:30", "11:10", "11:30", "12:30",
                              "14:00", "15:00", "17:09", "18:30", "20:30">>

\* script.js:52-: the page shows the times of a date
Render(d) ==
    /\ rendered' = <<[date |-> d, times |-> getTimesForDate(d)]>>
    /\ UNCHANGED <<now, up, epoch, airtableBase, regFile, reqs, timers,
                   events, mailInFlight, emailsLog, ledgerInFlight, views,
                   web>>

\* The page of the calendar, for every date of the model
SpecCalendar == Init /\ [][\E d \in Dates : Render(d)]_vars

---------------------------------------------------------------------------
(* Vocabulary of the claims *)

\* The four required fields are all present and not empty
AllPresent(data) == \A f \in RequiredFields : data[f] \notin {undefined, ""}

\* The 'end' event of request r is delivered in this step
Ends(r) == ~reqs[r].ended /\ reqs'[r].ended

EventsOf(type, r, job) ==
    {i \in DOMAIN events :
        /\ events[i].type = type
        /\ events[i].req = r
        /\ events[i].job = job}

Pending(r, job) == \E t \in timers : t.req = r /\ t.job = job

IsPrefix(s, t) == Len(s) <= Len(t) /\ \A i \in 1..Len(s) : s[i] = t[i]

\* The events this step adds to the history
NewEvents == {events'[i] : i \in (Len(events) + 1)..Len(events')}

---------------------------------------------------------------------------
(* C1: a scheduleEmail call whose send time is not after the clock (equal  *)
(* included) runs sendEmail inside the call: the send is the very next     *)
(* event, made at the same instant, and no timer is ever set for the job.  *)
C1_DueFiresInsideCall ==
    \A i \in DOMAIN events :
        (events[i].type = "scheduleEmail" /\ events[i].sendTime <= events[i].at)
        => /\ i + 1 \in DOMAIN events
           /\ events[i + 1].type = "send"
           /\ events[i + 1].via = "sync"
           /\ events[i + 1].req = events[i].req
           /\ events[i + 1].job = events[i].job
           /\ events[i + 1].at = events[i].at
           /\ EventsOf("setTimeout", events[i].req, events[i].job) = {}
           /\ ~Pending(events[i].req, events[i].job)

\* scheduleEmail was called with a send time equal to the clock, and with
\* one before it
C1_Witness ==
    /\ \E i \in DOMAIN events :
          events[i].type = "scheduleEmail" /\ events[i].sendTime = events[i].at
    /\ \E i \in DOMAIN events :
          events[i].type = "scheduleEmail" /\ events[i].sendTime < events[i].at

(* C2: a reminder whose send time is after the clock when scheduleEmail is *)
(* called is never sent at an instant before its send time, however far    *)
(* away the session.                                                       *)
C2_NeverBeforeSendTime ==
    \A i \in DOMAIN events :
        (events[i].type = "send" /\ events[i].via = "timer")
        => events[i].at >= events[i].sendTime

\* The store after the handler of r: what it was, and one entry more for r
Stored(r) ==
    /\ regFile'.kind = "list"
    /\ Len(regFile'.items) = Len(regFile.items) + 1
    /\ IsPrefix(regFile.items, regFile'.items)
    /\ DateParse(reqs[r].body.session).valid
    /\ regFile'.items[Len(regFile'.items)] =
          [firstName |-> reqs[r].body.firstName,
           lastName  |-> OrEmpty(reqs[r].body.lastName),
           email     |-> reqs[r].body.email,
           session   |-> toISOString(DateParse(reqs[r].body.session).time)]

(* C3: when the 'end' of a request with the four required fields present  *)
(* is handled, the store grows by exactly one entry, the last one, which   *)
(* holds the submitted names and email and the session in ISO UTC form.    *)
C3_StoreGrowsByOne ==
    [][\A r \in DOMAIN reqs :
          (Ends(r) /\ AllPresent(reqs[r].body)) => Stored(r)]_vars

(* C4: a request with one of the four required fields absent or empty is   *)
(* answered 400 and changes nothing else: not the store, the history (no   *)
(* ledger call, no send, no timer), the timers nor the calls in flight. A  *)
(* request with the four present is never answered 400, with or without a  *)
(* lastName.                                                               *)
C4_RejectionHasNoEffect ==
    [][\A r \in DOMAIN reqs :
          /\ (Ends(r) /\ ~AllPresent(reqs[r].body))
             => /\ reqs'[r].state = "answered"
                /\ reqs'[r].status = 400
                /\ UNCHANGED <<regFile, events, timers, mailInFlight,
                               ledgerInFlight, emailsLog, up>>
          /\ (Ends(r) /\ AllPresent(reqs[r].body)) => reqs'[r].status # 400
      ]_vars

\* A request without consent was rejected, and one without lastName was
\* accepted
C4_Witness ==
    /\ \E r \in DOMAIN reqs :
          /\ reqs[r].status = 400
          /\ reqs[r].body.consent \in {undefined, ""}
    /\ \E r \in DOMAIN reqs :
          /\ reqs[r].status = 302
          /\ reqs[r].body.lastName = undefined

\* The answer of the handler of r: 400, or 302 with the name and the session
Answered(r) ==
    /\ up'
    /\ reqs'[r].state = "answered"
    /\ \/ reqs'[r].status = 400
       \/ /\ reqs'[r].status = 302
          /\ reqs'[r].location.name = reqs[r].body.firstName
          /\ DateParse(reqs[r].body.session).valid
          /\ reqs'[r].location.date =
                toISOString(DateParse(reqs[r].body.session).time)

(* C5: every request whose body was received in full is answered, with 400 *)
(* or with a 302 that carries the name and the session, and the process    *)
(* still runs when its handler is done.                                    *)
C5_TwoOutcomes ==
    [][\A r \in DOMAIN reqs : Ends(r) => Answered(r)]_vars

\* The seven jobs of request r
SevenJobs(r) ==
    /\ Cardinality(EventsOf("send", r, "confirmation")) = 1
    /\ \A i \in EventsOf("send", r, "confirmation") :
          events[i].via = "sync" /\ events[i].to = reqs[r].body.email
    /\ Cardinality(EventsOf("send", r, "admin")) = 1
    /\ \A i \in EventsOf("send", r, "admin") :
          events[i].via = "sync" /\ events[i].to = AdminList
    /\ \A job \in ReminderSet :
          /\ Cardinality(EventsOf("scheduleEmail", r, job)) = 1
          /\ \A i \in EventsOf("scheduleEmail", r, job) :
                /\ events[i].to = reqs[r].body.email
                /\ events[i].sendTime =
                      DateParse(reqs[r].body.session).time + offsetOf(job)
    /\ Cardinality({i \in DOMAIN events :
                      /\ events[i].req = r
                      /\ events[i].type = "scheduleEmail"}) = 5

(* C6: a request with the four required fields present makes exactly seven *)
(* jobs: the confirmation sent at once to the registrant, one reminder for *)
(* each of the five offsets, addressed to the registrant and due at the    *)
(* session plus the offset, and the notice sent at once to the operators.  *)
C6_SevenJobs ==
    \A r \in DOMAIN reqs :
        (reqs[r].ended /\ AllPresent(reqs[r].body)) => SevenJobs(r)

(* C7: no job is sent more than once: a job sent inside scheduleEmail has  *)
(* no timer, a timer sends its job once, and an error answer of the mail   *)
(* transport starts no other send.                                         *)
C7_AtMostOneSend ==
    \A r \in DOMAIN reqs :
        \A job \in ReminderSet :
            /\ Cardinality(EventsOf("send", r, job)) <= 1
            /\ EventsOf("send", r, job) # {} => ~Pending(r, job)

\* A reminder was sent inside the call, one by its timer, and a send failed
C7_Witness ==
    /\ \E i \in DOMAIN events :
          /\ events[i].type = "send"
          /\ events[i].job \in ReminderSet
          /\ events[i].via = "sync"
    /\ \E i \in DOMAIN events :
          events[i].type = "send" /\ events[i].via = "timer"
    /\ emailsLog.errors > 0

(* C8: while the process that made it runs on and time passes, every      *)
(* reminder job that scheduleEmail was called for is sent in the end,      *)
(* inside the call or by its timer.                                        *)
ProcessEndedSince(r, job) ==
    \E i \in EventsOf("scheduleEmail", r, job) :
        ~up \/ epoch # events[i].epoch

C9_TimersSent ==
    \A i \in DOMAIN events :
        (events[i].type = "send" /\ events[i].via = "timer")
        => \E k \in 1..(i - 1) :
              /\ events[k].type = "setTimeout"
              /\ events[k].req = events[i].req
              /\ events[k].job = events[i].job
              /\ events[k].epoch = events[i].epoch

C9_TimersStep ==
    /\ epoch' # epoch => timers' = {}
    /\ (up' /\ epoch' = epoch)
       => \A t \in timers :
             \/ t \in timers'
             \/ \E e \in NewEvents :
                   /\ e.type = "send"
                   /\ e.via = "timer"
                   /\ e.req = t.req
                   /\ e.job = t.job

C9_OnlyInMemory == [][C9_TimersSent' /\ C9_TimersStep]_vars

\* The process was restarted with a reminder pending whose time has come
C9_Witness ==
    /\ up
    /\ epoch > 0
    /\ \E k \in DOMAIN events :
          /\ events[k].type = "setTimeout"
          /\ events[k].epoch < epoch
          /\ events[k].sendTime <= now
          /\ EventsOf("send", events[k].req, events[k].job) = {}

(* C10: the entries of the store are never changed, removed or reordered:  *)
(* every step leaves the store as it was or with entries added at its end. *)
C10_AppendOnly ==
    [][/\ regFile'.kind = "list"
       /\ IsPrefix(regFile.items, regFile'.items)]_vars

\* A registration is in the store after a later registration, a rejected
\* request, a restart, a send by timer and a failed send
C10_Witness ==
    /\ Len(regFile.items) >= 1
    /\ epoch > 0
    /\ emailsLog.errors > 0
    /\ \E i \in DOMAIN events : events[i].via = "timer"
    /\ \E r \in DOMAIN reqs : reqs[r].status = 400
    /\ \E r \in DOMAIN reqs : reqs[r].status = 302

EntryOf(r) ==
    [firstName |-> OrEmpty(reqs[r].body.firstName),
     lastName  |-> OrEmpty(reqs[r].body.lastName),
     email     |-> OrEmpty(reqs[r].body.email),
     session   |-> toISOString(DateParse(reqs[r].body.session).time)]

\* The writes of the store, in the order they were made
StoreWrites == SelectSeq(events, LAMBDA e : e.type = "writeFile")

(* C12: whatever the order in which requests connect and their bodies end, *)
(* no write of the store is lost: the store holds one entry for each       *)
(* request that was answered a redirect, and its k-th entry is the entry   *)
(* of the request that made the k-th write.                                *)
C12_NoLostUpdate ==
    /\ regFile.kind = "list"
    /\ Len(regFile.items) =
          Cardinality({r \in DOMAIN reqs : reqs[r].status = 302})
    /\ Len(regFile.items) = Len(StoreWrites)
    /\ \A k \in 1..Len(StoreWrites) :
          regFile.items[k] = EntryOf(StoreWrites[k].req)

\* Two requests were open together and both were stored: the one that
\* connected second wrote first, with a different entry
C12_Witness ==
    /\ Len(reqs) = 2
    /\ reqs[1].status = 302
    /\ reqs[2].status = 302
    /\ Len(StoreWrites) = 2
    /\ StoreWrites[1].req = 2
    /\ StoreWrites[2].req = 1
    /\ regFile.items[1] # regFile.items[2]

\* The end of the handler of r on a store that is no list: the process runs
\* on, r has its redirect, and the store is the list of r's entry alone
StartsAfresh(r) ==
    /\ up'
    /\ reqs'[r].state = "answered"
    /\ reqs'[r].status = 302
    /\ regFile' = [kind |-> "list", items |-> <<EntryOf(r)>>]

(* C13: when the body of a request with the four required fields and a    *)
(* session that is a date ends while registrations.json does not hold a    *)
(* list (text that is no JSON, no file, or JSON that is no list), the      *)
(* process runs on, the request is answered the redirect, and the store    *)
(* holds the new entry and nothing else.                                   *)
C13_DamagedStoreIsEmpty ==
    [][\A r \in DOMAIN reqs :
          (/\ Ends(r)
           /\ AllPresent(reqs[r].body)
           /\ DateParse(reqs[r].body.session).valid
           /\ regFile.kind # "list")
          => StartsAfresh(r)]_vars

\* The posts of the history to the tracking endpoint `name` for token t
PostsTo(name, t) ==
    {i \in DOMAIN web :
        /\ web[i].method = "POST"
        /\ web[i].pathname = <<"/", name>>
        /\ web[i].body.token = t}

\* The largest of a set of numbers that is not empty
Max(S) == CHOOSE x \in S : \A y \in S : y <= x

\* The values posted to /track for token t
Posted(t) == {web[i].body.watchedSeconds : i \in PostsTo("track", t)}

(* C14: for a token that is not empty, once values were posted to /track   *)
(* the store holds for the token, as watched, the largest of the values    *)
(* posted so far; and no step makes the watched value of a token smaller.  *)
C14_WatchedIsMax ==
    [][\A t \in Tokens \ {""} :
          /\ Posted(t)' # {}
             => /\ t \in DOMAIN views'
                /\ views'[t].watched = Max(Posted(t)')
          /\ t \in DOMAIN views
             => /\ t \in DOMAIN views'
                /\ views'[t].watched >= views[t].watched]_vars

(* C15: a POST to /track or to /track-complete is answered 204 without a   *)
(* body, and a GET of /admin/views is answered 200 with the view-tracking  *)
(* store; none of them is answered by the static files or by the fallback. *)
C15_TrackingRoutesReached ==
    \A i \in DOMAIN web :
        /\ (/\ web[i].method = "POST"
            /\ web[i].pathname \in { <<"/", "track">>,
                                     <<"/", "track-complete">> })
           => /\ web[i].status = 204
              /\ web[i].text = ""
              /\ web[i].branch \notin {"static", "fallback"}
        /\ (/\ web[i].method = "GET"
            /\ web[i].pathname = <<"/", "admin", "/", "views">>)
           => /\ web[i].status = 200
              /\ web[i].branch \notin {"static", "fallback"}

(* C16: once a POST to /track-complete was made for a token that is not    *)
(* empty, the store holds the token as completed, in every later state;    *)
(* and the step of a completion post leaves the token's watched value.     *)
C16_CompletedStays ==
    [][\A t \in Tokens \ {""} :
          /\ PostsTo("track-complete", t)' # {}
             => /\ t \in DOMAIN views'
                /\ views'[t].completed
          /\ (/\ PostsTo("track-complete", t)' # PostsTo("track-complete", t)
              /\ t \in DOMAIN views)
             => views'[t].watched = views[t].watched]_vars

\* The path is a file of the asset root or of a directory under it
UnderPublic(path) ==
    /\ Len(path) > Len(PublicRoot)
    /\ SubSeq(path, 1, Len(PublicRoot)) = PublicRoot

(* C17: a GET is answered 200 only with a file under public/, whatever the *)
(* target, parent segments and escaped separators included; and a GET      *)
(* whose path names no file under public/ is answered 404.                 *)
C17_OnlyFilesUnderPublic ==
    \A i \in DOMAIN web :
        web[i].branch = "static"
        => /\ web[i].status = 200 => UnderPublic(web[i].file)
           /\ web[i].status \in {200, 404}

\* The times of a Saturday, script.js:42
SaturdayTimes == <<"09:30", "14:00", "16:00", "18:30", "20:30">>

\* 23 August 2025
DesignatedDate == [year |-> 2025, month |-> 7, date |-> 23]

(* C18: the times shown for a date depend on the date alone: 23 August     *)
(* 2025, a Saturday, has the times of a Saturday followed by 22:00; every  *)
(* other Saturday has the times of a Saturday; every other date has the    *)
(* times of its day of the week (Monday to Thursday, Friday, Sunday).      *)
C18_SlotsForDay ==
    \A i \in DOMAIN rendered :
        LET d   == rendered[i].date
            t   == rendered[i].times
            dow == getDay(d)
        IN  /\ t = getTimesForDate(d)
            /\ d = DesignatedDate
               => dow = 6 /\ t = SaturdayTimes \o <<"22:00">>
            /\ (d # DesignatedDate /\ dow = 6) => t = SaturdayTimes
            /\ dow \in 1..4 => t = <<"15:00", "18:30", "20:30">>
            /\ dow = 5 => t = <<"09:30", "15:00", "19:30">>
            /\ dow = 0
               => t = <<"09:30", "10:30", "11:10", "11:30", "12:30",
                        "14:00", "15:00", "17:09", "18:30", "20:30">>

\* The page shows a Saturday of August 2025 that is not the 23rd
C18_Witness ==
    \E i \in DOMAIN rendered :
        /\ rendered[i].date.year = 2025
        /\ rendered[i].date.month = 7
        /\ rendered[i].date.date = 30
        /\ getDay(rendered[i].date) = 6

\* The places in the history of the events of request r of the given types
Places(r, types) ==
    {i \in DOMAIN events : events[i].req = r /\ events[i].type \in types}

\* The places of what the handler of r itself starts after the store is
\* written: the ledger call, the sends made inside the handler, the calls
\* of scheduleEmail and the timers they set
Started(r) ==
    {i \in Places(r, {"appendToAirtable", "airtable.create", "send",
                      "scheduleEmail", "setTimeout"}) :
        events[i].via # "timer"}

(* C19: the handler of a registration that is answered the redirect writes *)
(* the store once, before it calls the ledger; it calls the ledger before  *)
(* it sends or schedules any mail; and it answers the redirect after all   *)
(* of these, the send of every reminder whose send time is not after the   *)
(* clock included. A request that is rejected leaves nothing in the        *)
(* history.                                                                *)
C19_HandlerOrder ==
    \A r \in DOMAIN reqs :
        /\ reqs[r].status = 400 => \A i \in DOMAIN events : events[i].req # r
        /\ reqs[r].status = 302
           => /\ Cardinality(Places(r, {"writeFile"})) = 1
              /\ Cardinality(Places(r, {"appendToAirtable"})) = 1
              /\ Cardinality(Places(r, {"respond"})) = 1
              /\ \A w \in Places(r, {"writeFile"}) :
                    \A i \in Started(r) \cup Places(r, {"respond"}) : w < i
              /\ \A l \in Places(r, {"appendToAirtable"}) :
                    \A i \in Places(r, {"send", "scheduleEmail",
                                        "setTimeout", "respond"}) : l < i
              /\ \A k \in Places(r, {"respond"}) :
                    /\ \A i \in Started(r) : i < k
                    /\ \A j \in Places(r, {"scheduleEmail"}) :
                          events[j].sendTime <= events[j].at
                          => \E m \in Places(r, {"send"}) :
                                /\ events[m].job = events[j].job
                                /\ j < m
                                /\ m < k

\* A registration was answered whose handler called the ledger's create,
\* sent a reminder that was due and set a timer for one that was not
C19_Witness ==
    \E r \in DOMAIN reqs :
        /\ reqs[r].status = 302
        /\ Places(r, {"airtable.create"}) # {}
        /\ Places(r, {"setTimeout"}) # {}
        /\ \E j \in Places(r, {"scheduleEmail"}) :
              events[j].sendTime <= events[j].at

\* The store holds an entry with the email and the session of request r
AlreadyStored(r) ==
    /\ regFile.kind = "list"
    /\ \E i \in 1..Len(regFile.items) :
          /\ regFile.items[i].email = reqs[r].body.email
          /\ regFile.items[i].session =
                toISOString(DateParse(reqs[r].body.session).time)

RankOf(job) == CHOOSE k \in 1..Len(Reminders) : Reminders[k] = job

\* The sends of request r come in the order of the jobs: the confirmation
\* before every reminder, and no reminder before one of an earlier offset
SendsInOrder(r) ==
    /\ \A i \in Places(r, {"send"}) :
          events[i].job \in ReminderSet
          => \E c \in EventsOf("send", r, "confirmation") : c < i
    /\ \A i \in Places(r, {"send"}) :
          \A job \in ReminderSet :
              (/\ events[i].job \in ReminderSet
               /\ RankOf(job) < RankOf(events[i].job))
              => \E m \in EventsOf("send", r, job) : m < i

(* C21: while the process has not been stopped or restarted, the sends of  *)
(* one registration are attempted in a fixed order: the confirmation, then *)
(* the reminders by their offsets (-24h, -5h, -1h, -30min, +1h); a         *)
(* reminder is never attempted before one of an earlier offset of the same *)
(* registration, whatever the session time and the registration time.      *)
C21_SendsInOffsetOrder ==
    (up /\ epoch = 0) => \A r \in DOMAIN reqs : SendsInOrder(r)

\* The paths of the endpoints: the registration, the tracking posts, the
\* admin view
EndpointPaths ==
    { <<"/", "register">>, <<"/", "track">>, <<"/", "track-complete">>,
      <<"/", "admin", "/", "views">> }

\* The i-th request of the history has the path of no endpoint and names
\* no file: its path does not decode, or it is the path of no file
NamesNothing(i) ==
    \/ web[i].branch = "throw"
    \/ /\ web[i].pathname \notin EndpointPaths
       /\ FullPath(FilePathOf(web[i].pathname)) \notin Disk

(* C22: the requests that have the path of no endpoint and name no file    *)
(* are all answered alike, whatever their method and path: with status 404 *)
(* and with one and the same body.                                         *)
C22_UniformNotFound ==
    \A i \in DOMAIN web :
        NamesNothing(i)
        => /\ web[i].status = 404
           /\ \A j \in DOMAIN web :
                 NamesNothing(j) => web[j].text = web[i].text

---------------------------------------------------------------------------
(* What holds of the requests whose session string is a date: C3, C5 and   *)
(* C6 fail on no other request.                                            *)

IsDate(r) == DateParse(reqs[r].body.session).valid

StoredWhenDate ==
    [][\A r \in DOMAIN reqs :
          (Ends(r) /\ AllPresent(reqs[r].body) /\ IsDate(r)) => Stored(r)]_vars

AnsweredWhenDate ==
    [][\A r \in DOMAIN reqs :
          (Ends(r) /\ (AllPresent(reqs[r].body) => IsDate(r)))
          => Answered(r)]_vars

SevenJobsWhenDate ==
    \A r \in DOMAIN reqs :
        (reqs[r].ended /\ AllPresent(reqs[r].body) /\ IsDate(r))
        => SevenJobs(r)

\* A reminder set with a delay of at most TIMEOUT_MAX is not sent early
NotEarlyWithinTimeoutMax ==
    \A i \in DOMAIN events :
        (events[i].type = "send" /\ events[i].via = "timer")
        => \/ events[i].at >= events[i].sendTime
           \/ \E k \in 1..(i - 1) :
                 /\ events[k].type = "setTimeout"
                 /\ events[k].req = events[i].req
                 /\ events[k].job = events[i].job
                 /\ events[k].sendTime - events[k].at > TIMEOUT_MAX \div UnitMs

\* The delay of every timer set for request r was at most TIMEOUT_MAX
WithinTimeoutMax(r) ==
    \A k \in Places(r, {"setTimeout"}) :
        events[k].sendTime - events[k].at <= TIMEOUT_MAX \div UnitMs

\* C21 fails on no registration but the ones with a timer over TIMEOUT_MAX
SendsInOrderWithinTimeoutMax ==
    (up /\ epoch = 0)
    => \A r \in DOMAIN reqs : WithinTimeoutMax(r) => SendsInOrder(r)

\* What is uniform in the not-found answers: the status of the requests
\* whose path decodes, and the body within the GET requests and within the
\* requests of the other methods
NotFoundByMethod ==
    \A i \in DOMAIN web :
        (NamesNothing(i) /\ web[i].branch # "throw")
        => /\ web[i].status = 404
           /\ web[i].text = IF web[i].method = "GET"
                            THEN "Fichier non trouvé"
                            ELSE "Page non trouvée"

\* C13 fails on no store but the one that holds JSON that is no list: a
\* file that does not parse, or is not there, is read as the empty list
UnparseableStoreIsEmpty ==
    [][\A r \in DOMAIN reqs :
          (/\ Ends(r)
           /\ AllPresent(reqs[r].body)
           /\ IsDate(r)
           /\ regFile.kind \in {"unreadable", "absent"})
          => StartsAfresh(r)]_vars

====
